---- MODULE Spec2Model ----
(***************************************************************************)
(* pyro/contrib/funsor/infer/traceenum_elbo.py                             *)
(*                                                                         *)
(* terms_from_trace and TraceEnum_ELBO.differentiable_loss, with funsors   *)
(* kept symbolically: a funsor is the set of its free variables (inputs)   *)
(* and the set of atomic densities it is built from, each with the scalar  *)
(* coefficient it has been multiplied by.                                  *)
(***************************************************************************)
EXTENDS Integers, Sequences, FiniteSets, TLC

VARIABLES
    pc,                   \* position in differentiable_loss
    guide_tr, model_tr,   \* the two execution traces (site records in trace order)
    guide_terms, model_terms,
    contracted_factors, uncontracted_factors,
    costs,
    elbo,                 \* the per-cost terms added into elbo, in order
    raised,               \* the exception that ended the last call, or "none"
    get_trace_calls,      \* number of calls of _get_trace so far
    tr, tr0,              \* a trace handed to terms_from_trace, and as it was before the last call
    terms, prev_terms,    \* what the last two calls of terms_from_trace returned
    branches,             \* the scale branch each site took in the last call
    ncalls                \* number of calls of terms_from_trace on tr

vars == <<pc, guide_tr, model_tr, guide_terms, model_terms, contracted_factors,
          uncontracted_factors, costs, elbo, raised, get_trace_calls,
          tr, tr0, terms, prev_terms, branches, ncalls>>

loss_vars == <<pc, guide_tr, model_tr, guide_terms, model_terms, contracted_factors,
               uncontracted_factors, costs, elbo>>

extract_vars == <<tr, tr0, terms, prev_terms, branches, ncalls>>

-----------------------------------------------------------------------------
(* Bounds *)

MaxScale == 2        \* site scales range over 1..MaxScale
MaxCalls == 2        \* calls of terms_from_trace on one trace
MaxGetTraceCalls == 1

SiteNames == <<"a", "b", "c">>     \* names of the sites of an extracted trace, in order
Plate == "p"                   \* the one plate of the programs

Scales == 1..MaxScale

Range(s) == {s[i] : i \in 1..Len(s)}

-----------------------------------------------------------------------------
(* Funsors *)

None == [none |-> TRUE]

\* an atomic density recorded by the trace handler: log_prob or log_measure of a site
Density(tag, name, kind, ins) ==
    [terms |-> {[atom |-> <<tag, name, kind>>, coef |-> 1]}, inputs |-> ins]

\* to_funsor(k) for a python number k
Number(k) == [val |-> k, inputs |-> {}]

\* f * s for a scale funsor s
Mul(f, s) ==
    [terms |-> {[atom |-> t.atom, coef |-> t.coef * s.val] : t \in f.terms},
     inputs |-> f.inputs \cup s.inputs]

\* -f
Neg(f) ==
    [terms |-> {[atom |-> t.atom, coef |-> 0 - t.coef] : t \in f.terms},
     inputs |-> f.inputs]

-----------------------------------------------------------------------------
(* terms_from_trace *)

EmptyTerms ==
    [log_factors |-> <<>>, log_measures |-> <<>>, scale |-> Number(1),
     plate_vars |-> {}, measure_vars |-> {}]

\* line 26: the vectorized frames of the site's cond_indep_stack
site_plates(node) ==
    {f.name : f \in {g \in Range(node.cond_indep_stack) : g.vectorized}}

\* line 34: `-` binds tighter than `|`, so only the site name is filtered by plate_vars
site_measure_vars(node, plate_vars) ==
    node.value.inputs \cup ({node.name} \ plate_vars)

\* faulty variant: line 40 without `- {name}`
common_scale_branch_keeps_name(node, plate_vars) ==
    node.replay_active /\ (node.log_prob.inputs \ plate_vars) # {}

\* line 40: the condition of the common-scale branch
common_scale_branch(node, plate_vars) ==
    node.replay_active /\ ((node.log_prob.inputs \ plate_vars) \ {node.name}) # {}

\* line 28: whether the site's log_prob is a log_factor
has_log_factor(node) == node.is_observed \/ ~node.replay_skipped

\* line 29: the object appended is the one bound to log_prob at that moment
appended_log_factor(node) == node.log_prob

\* faulty variant: line 44 with the product dropped instead of bound to the site
default_scale_dropped(node) == node

\* line 44: funsors are immutable, `*=` rebinds the site's log_prob to a new product
default_scale(node) == [node EXCEPT !.log_prob = Mul(node.log_prob, node.scale)]

\* line 42
common_scale(old, node) == node.scale

\* line 22: prune_subsample_sites(tr) is a copy of the trace that holds the same
\* site records; the traces here hold no subsample site, so nothing is removed
prune_subsample_sites(trace) == trace

\* lines 22-44: the loop body from site i on; rebinding a field of a node shows in
\* the trace, whose site records the nodes are
RECURSIVE terms_loop(_, _, _, _)
terms_loop(nodes, i, t, br) ==
    IF i > Len(nodes) THEN [terms |-> t, nodes |-> nodes, branches |-> br]
    ELSE LET node == nodes[i] IN
      IF node.type # "sample" THEN terms_loop(nodes, i + 1, t, Append(br, "skipped"))
      ELSE
        LET pv == t.plate_vars \cup site_plates(node)
            lf == IF has_log_factor(node)
                  THEN Append(t.log_factors, appended_log_factor(node))
                  ELSE t.log_factors
            hm == node.log_measure # None
            lm == IF hm THEN Append(t.log_measures, node.log_measure) ELSE t.log_measures
            mv == IF hm THEN t.measure_vars \cup site_measure_vars(node, pv)
                  ELSE t.measure_vars
            cs == common_scale_branch(node, pv)
            t2 == [log_factors |-> lf, log_measures |-> lm,
                   scale |-> IF cs THEN common_scale(t.scale, node) ELSE t.scale,
                   plate_vars |-> pv, measure_vars |-> mv]
            n2 == IF cs THEN node ELSE default_scale(node)
        IN terms_loop([nodes EXCEPT ![i] = n2], i + 1, t2,
                      Append(br, IF cs THEN "common" ELSE "default"))

terms_from_trace(trace) == terms_loop(prune_subsample_sites(trace), 1, EmptyTerms, <<>>)

-----------------------------------------------------------------------------
(* funsor.sum_product: partial_sum_product and sum_product, on symbolic funsors *)

Inter(S) == {x \in UNION S : \A e \in S : x \in e}

\* the product of a set of funsors under prod_op
Prod(fs) == [terms |-> UNION {f.terms : f \in fs}, inputs |-> UNION {f.inputs : f \in fs}]

\* f.reduce(op, vs)
Reduce(f, vs) == [f EXCEPT !.inputs = @ \ vs]

\* the plates a factor lives in
ordinal_of(f, plates) == plates \cap f.inputs

\* the coarsest plate context among the factors that mention sum variable v
var_to_ordinal(v, factors, plates) ==
    Inter({ordinal_of(f, plates) : f \in {g \in Range(factors) : v \in g.inputs}})

\* ordinal_to_factors[ord].append(f), a new key going last
add_to_ordinal(otf, ord, f) ==
    IF \E i \in 1..Len(otf) : otf[i].ord = ord
    THEN LET i == CHOOSE j \in 1..Len(otf) : otf[j].ord = ord
         IN [otf EXCEPT ![i].fs = Append(@, f)]
    ELSE Append(otf, [ord |-> ord, fs |-> <<f>>])

RECURSIVE group_by_ordinal(_, _, _, _)
group_by_ordinal(factors, i, plates, otf) ==
    IF i > Len(factors) THEN otf
    ELSE group_by_ordinal(factors, i + 1, plates,
                          add_to_ordinal(otf, ordinal_of(factors[i], plates), factors[i]))

\* the indices of the factors connected to those of S through the variables vs
RECURSIVE connected(_, _, _)
connected(S, fs, vs) ==
    LET T == S \cup {j \in 1..Len(fs) :
                       \E i \in S : (fs[i].inputs \cap fs[j].inputs \cap vs) # {}}
    IN IF T = S THEN S ELSE connected(T, fs, vs)

\* _partition: the connected components of the factors, each with its variables;
\* components are popped from the end of the bipartite graph's ordered dict, so
\* those that hold a variable come first, latest first-met variable first, and then
\* the lone factors, last first
component_key(C, fs, vs) ==
    LET dims == UNION {fs[i].inputs \cap vs : i \in C}
        first(d) == CHOOSE i \in C : d \in fs[i].inputs /\
                                     \A j \in C : d \in fs[j].inputs => i <= j
    IN IF dims = {} THEN CHOOSE i \in C : TRUE
       ELSE Len(fs) + (CHOOSE m \in {first(d) : d \in dims} :
                         \A d \in dims : first(d) <= m)

RECURSIVE order_components(_, _, _)
order_components(Cs, fs, vs) ==
    IF Cs = {} THEN <<>>
    ELSE LET C == CHOOSE D \in Cs :
                    \A E \in Cs : component_key(E, fs, vs) <= component_key(D, fs, vs)
         IN <<[fs |-> {fs[i] : i \in C}, vars |-> UNION {fs[i].inputs \cap vs : i \in C}]>>
            \o order_components(Cs \ {C}, fs, vs)

partition(fs, vs) ==
    order_components({connected({i}, fs, vs) : i \in 1..Len(fs)}, fs, vs)

\* the body of the while loop for the groups of one leaf
RECURSIVE contract_groups(_, _, _, _, _, _)
contract_groups(groups, k, leaf, st, factors, ctx) ==
    IF k > Len(groups) \/ st.raised # "none" THEN st
    ELSE
      LET f == Reduce(Prod(groups[k].fs), groups[k].vars)
          remaining_sum_vars == ctx.sum_vars \cap f.inputs
          new_plates == UNION {var_to_ordinal(v, factors, ctx.plates) :
                                 v \in remaining_sum_vars}
          st2 == IF remaining_sum_vars = {}
                 THEN [st EXCEPT !.results =
                          Append(@, Reduce(f, leaf \cap ctx.eliminate))]
                 ELSE IF new_plates = leaf
                 THEN [st EXCEPT !.raised = "ValueError: intractable!"]
                 ELSE [st EXCEPT !.otf =
                          add_to_ordinal(@, new_plates, Reduce(f, leaf \ new_plates))]
      IN contract_groups(groups, k + 1, leaf, st2, factors, ctx)

RECURSIVE contract_leaves(_, _, _)
contract_leaves(st, factors, ctx) ==
    IF st.otf = <<>> \/ st.raised # "none" THEN st
    ELSE
      LET otf == st.otf
          \* max(ordinal_to_factors, key=len): the first key of greatest size
          li == CHOOSE i \in 1..Len(otf) :
                  /\ \A j \in 1..Len(otf) : Cardinality(otf[j].ord) <= Cardinality(otf[i].ord)
                  /\ \A j \in 1..(i - 1) : Cardinality(otf[j].ord) < Cardinality(otf[i].ord)
          leaf == otf[li].ord
          rest == SubSeq(otf, 1, li - 1) \o SubSeq(otf, li + 1, Len(otf))
          used == UNION {g.inputs \cap ctx.sum_vars : g \in Range(factors)}
          leaf_reduce_vars == {v \in used : var_to_ordinal(v, factors, ctx.plates) = leaf}
          groups == partition(otf[li].fs, leaf_reduce_vars)
      IN contract_leaves(contract_groups(groups, 1, leaf, [st EXCEPT !.otf = rest],
                                         factors, ctx),
                         factors, ctx)

\* partial_sum_product(sum_op, prod_op, factors, eliminate, plates):
\* [results: the contracted factors, raised: "none" or the error]
partial_sum_product(factors, eliminate, plates) ==
    LET ctx == [sum_vars |-> eliminate \ plates, eliminate |-> eliminate, plates |-> plates]
        st == contract_leaves([otf |-> group_by_ordinal(factors, 1, plates, <<>>),
                               results |-> <<>>, raised |-> "none"], factors, ctx)
    IN [results |-> st.results, raised |-> st.raised]

\* sum_product: the product of the partial results, the unit of prod_op when none
sum_product(factors, eliminate, plates) ==
    LET r == partial_sum_product(factors, eliminate, plates)
    IN [result |-> Prod(Range(r.results)), raised |-> r.raised]

\* funsor.Integrate(log_measure, integrand, reduced_vars)
Integrate(log_measure, integrand, reduced_vars) ==
    [terms |-> integrand.terms,
     inputs |-> (log_measure.inputs \cup integrand.inputs) \ reduced_vars]

-----------------------------------------------------------------------------
(* Traces the handlers produce *)

VecPlates(stack) == {f.name : f \in {g \in Range(stack) : g.vectorized}}

\* a site that is not a sample site
ParamSite(name) ==
    [name |-> name, type |-> "param", is_observed |-> FALSE, cond_indep_stack |-> <<>>,
     log_prob |-> None, log_measure |-> None, scale |-> Number(1),
     value |-> [inputs |-> {}], replay_active |-> FALSE, replay_skipped |-> FALSE]

\* a sample site; enum: its value is an enumerated funsor over its own name,
\* otherwise a tensor over the enclosing vectorized plates; deps: the upstream
\* enumerated variables its density depends on
SampleSite(tag, name, kind, stack, enum, deps, k) ==
    LET own == IF enum THEN {name} ELSE {}
        ins == VecPlates(stack) \cup own \cup deps
        latent == kind \in {"guide_latent", "model_latent"}
    IN [name |-> name, type |-> "sample",
        is_observed |-> (kind = "model_observed"),
        cond_indep_stack |-> stack,
        log_prob |-> Density(tag, name, "log_prob", ins),
        log_measure |-> IF latent THEN Density(tag, name, "log_measure", ins) ELSE None,
        scale |-> Number(k),
        value |-> [inputs |-> IF enum THEN {name} ELSE VecPlates(stack)],
        replay_active |-> (kind # "guide_latent"),
        replay_skipped |-> (kind \in {"model_latent", "model_observed"})]

GuideKinds == {"guide_latent"}
ModelKinds == {"model_replayed", "model_latent", "model_observed"}

\* (the value of an observed site is data, never enumerated)
EnumChoices(kind) == IF kind = "model_observed" THEN {FALSE} ELSE BOOLEAN

\* the enumerated variables the sites recorded so far have introduced
EnumVars(prefix) ==
    {s.name : s \in {u \in Range(prefix) : u.type = "sample" /\ u.value.inputs = {u.name}}}

DepChoices(prefix) == {{}} \cup {{v} : v \in EnumVars(prefix)}

\* the sample sites a program can record under the name `name` after the sites of
\* prefix: outside the plate or inside the vectorized plate, or inside a
\* sequential (non-vectorized) plate
SampleSitesAfter(tag, kinds, name, prefix, scales) ==
    UNION { { SampleSite(tag, name, kind, stack, enum, deps, k) :
                stack \in {<<>>, <<[name |-> Plate, vectorized |-> TRUE]>>},
                enum \in EnumChoices(kind), deps \in DepChoices(prefix),
                k \in scales } : kind \in kinds } \cup
    { SampleSite(tag, name, kind, <<[name |-> Plate, vectorized |-> FALSE]>>, FALSE, {}, 1) :
        kind \in kinds }

SitesAfter(tag, kinds, name, prefix) ==
    {ParamSite(name)} \cup SampleSitesAfter(tag, kinds, name, prefix, Scales)

-----------------------------------------------------------------------------
(* terms_from_trace called on a trace *)

LossIdle ==
    /\ pc = "idle" /\ guide_tr = <<>> /\ model_tr = <<>>
    /\ guide_terms = None /\ model_terms = None
    /\ contracted_factors = <<>> /\ uncontracted_factors = <<>>
    /\ costs = <<>> /\ elbo = <<>>

\* a guide trace or a model trace of one to three sites
InitExtract ==
    /\ LossIdle
    /\ raised = "none" /\ get_trace_calls = 0
    /\ \E kinds \in {GuideKinds, ModelKinds} :
         \E s1 \in SitesAfter("tr", kinds, SiteNames[1], <<>>) :
           \/ tr = <<s1>>
           \/ \E s2 \in SitesAfter("tr", kinds, SiteNames[2], <<s1>>) :
                \/ tr = <<s1, s2>>
                \/ \E s3 \in SitesAfter("tr", kinds, SiteNames[3], <<s1, s2>>) :
                     tr = <<s1, s2, s3>>
    /\ tr0 = tr
    /\ terms = None /\ prev_terms = None /\ branches = <<>>
    /\ ncalls = 0

TermsFromTrace ==
    /\ ncalls < MaxCalls
    /\ LET r == terms_from_trace(tr) IN
        /\ terms' = r.terms
        /\ tr' = r.nodes
        /\ branches' = r.branches
    /\ tr0' = tr
    /\ prev_terms' = terms
    /\ ncalls' = ncalls + 1
    /\ UNCHANGED <<loss_vars, raised, get_trace_calls>>

NextExtract == TermsFromTrace

SpecExtract == InitExtract /\ [][NextExtract]_vars

-----------------------------------------------------------------------------
(* Properties of terms_from_trace, stated on the trace before the call (tr0),
   the trace after it (tr) and the term-set returned (terms) *)

Called == ncalls >= 1

\* the vectorized plates of the sample sites 1..i of trace t
PlatesUpToIn(t, i) ==
    UNION { {f.name : f \in {g \in Range(t[j].cond_indep_stack) : g.vectorized}} :
            j \in {k \in 1..i : t[k].type = "sample"} }

\* the site's log_prob is one of the log_factors
ScoredIn(t, i) == t[i].type = "sample" /\ (t[i].is_observed \/ ~t[i].replay_skipped)

\* the condition the specification gives for the shared-scale branch
DependsOnOtherVariableIn(t, i) ==
    /\ t[i].replay_active
    /\ \E v \in t[i].log_prob.inputs : v \notin PlatesUpToIn(t, i) /\ v # t[i].name

IsSample(i) == tr0[i].type = "sample"
PlatesUpTo(i) == PlatesUpToIn(tr0, i)
Scored(i) == ScoredIn(tr0, i)
DependsOnOtherVariable(i) == DependsOnOtherVariableIn(tr0, i)

\* position of site i's log_prob in log_factors
FactorIndex(i) == Cardinality({j \in 1..i : Scored(j)})

SharedSites == {i \in 1..Len(tr0) : IsSample(i) /\ DependsOnOtherVariable(i)}

Max(S) == CHOOSE x \in S : \A y \in S : y <= x

\* C1: plate_vars and measure_vars of the returned term-set are disjoint.
C1_PlateMeasureDisjoint ==
    Called => terms.plate_vars \cap terms.measure_vars = {}

\* C2: the log_factor of a scored site that took the default-scale branch is the
\* site's log_prob multiplied by the site's scale.
C2_DefaultFactorScaled ==
    Called =>
      \A i \in 1..Len(tr0) :
        (Scored(i) /\ branches[i] = "default") =>
          terms.log_factors[FactorIndex(i)] = Mul(tr0[i].log_prob, tr0[i].scale)

\* C7: a sample site takes the shared-scale branch exactly when its replay is
\* active and its log_prob has a free variable that is neither a plate variable
\* nor the site's own name; the returned scale is 1 when no site took that branch
\* and otherwise the scale of the last site, in trace order, that took it.
C7_ScaleBranch ==
    Called =>
      /\ \A i \in 1..Len(tr0) :
            /\ IsSample(i) => (branches[i] = "common" <=> DependsOnOtherVariable(i))
            /\ ~IsSample(i) => branches[i] = "skipped"
      /\ terms.scale = IF SharedSites = {} THEN Number(1) ELSE tr0[Max(SharedSites)].scale

\* C7 witness: two sites with different scales took the shared-scale branch, and
\* the last one's scale was returned.
C7_Witness ==
    /\ Called
    /\ \E i, j \in SharedSites : i < j /\ tr0[i].scale # tr0[j].scale
                                  /\ terms.scale = tr0[j].scale
    /\ \E i \in 1..Len(tr0) : tr0[i].replay_active /\ IsSample(i) /\ branches[i] = "default"

-----------------------------------------------------------------------------
(* TraceEnum_ELBO *)

\* faulty variant: line 52 returning instead of raising
get_trace_returns(args) == "none"

\* line 52
get_trace(args) == "ValueError: shouldn't be here"

\* faulty variant: line 71 with issuperset in place of intersection
is_contracted_superset(f, measure_vars) ==
    measure_vars # {} /\ measure_vars \subseteq f.inputs

\* line 71
is_contracted(f, measure_vars) == (measure_vars \cap f.inputs) # {}

\* lines 69-74
contracted(t) == SelectSeq(t.log_factors, LAMBDA f : is_contracted(f, t.measure_vars))
uncontracted(t) == SelectSeq(t.log_factors, LAMBDA f : ~is_contracted(f, t.measure_vars))

\* lines 75-78
eliminate_model(t, contracted_fs) ==
    partial_sum_product(t.log_measures \o contracted_fs, t.measure_vars, t.plate_vars)

\* faulty variant: lines 82-84 with the guide log_factors added unnegated
build_costs_unsigned(mt, uncontracted_fs, gt) ==
    [i \in 1..Len(mt.log_factors) |-> Mul(mt.log_factors[i], mt.scale)]
    \o uncontracted_fs
    \o gt.log_factors

\* lines 82-84
build_costs(mt, uncontracted_fs, gt) ==
    [i \in 1..Len(mt.log_factors) |-> Mul(mt.log_factors[i], mt.scale)]
    \o uncontracted_fs
    \o [i \in 1..Len(gt.log_factors) |-> Neg(gt.log_factors[i])]

\* faulty variant: line 87 with the model's plates alone
all_plate_vars_model_only(gt, mt) == mt.plate_vars

\* line 87
all_plate_vars(gt, mt) == gt.plate_vars \cup mt.plate_vars

\* line 94
marginal_eliminate(cost, plate_vars, gt) == (plate_vars \cup gt.measure_vars) \ cost.inputs

\* line 96
integrate_vars(cost, gt) == gt.measure_vars \cap cost.inputs

\* line 97
reduce_vars(cost, plate_vars) == plate_vars \cap cost.inputs

\* lines 90-97: the term one cost adds to elbo
elbo_term(cost, gt, plate_vars) ==
    LET m == sum_product(gt.log_measures, marginal_eliminate(cost, plate_vars, gt), plate_vars)
        e == Integrate(m.result, cost, integrate_vars(cost, gt))
    IN [cost |-> cost, log_prob |-> m.result, raised |-> m.raised,
        eliminated |-> marginal_eliminate(cost, plate_vars, gt),
        integrated |-> integrate_vars(cost, gt),
        reduced |-> reduce_vars(cost, plate_vars),
        inputs |-> Reduce(e, reduce_vars(cost, plate_vars)).inputs]

-----------------------------------------------------------------------------
(* The traces of lines 59-60: the guide's, and the model's replayed against it *)

Optional(S) == {<<>>} \cup {<<x>> : x \in S}

GuideTraces == Optional(SitesAfter("guide", GuideKinds, "z", <<>>))

\* the model's record of a site the guide sampled: same plates, the guide's value;
\* a model that does not sample the guide's site records nothing for it
ReplayedSites(g) ==
    IF g = <<>> \/ g[1].type # "sample" THEN {<<>>}
    ELSE {<<>>} \cup
         { <<SampleSite("model", g[1].name, "model_replayed", g[1].cond_indep_stack,
                        g[1].value.inputs = {g[1].name}, {}, k)>> : k \in Scales }

ExtractIdle ==
    /\ tr = <<>> /\ tr0 = <<>> /\ terms = None /\ prev_terms = None
    /\ branches = <<>> /\ ncalls = 0

Init ==
    /\ pc = "start"
    /\ \E g \in GuideTraces :
         \E zs \in ReplayedSites(g) :
           \E ws \in Optional(SampleSitesAfter("model", {"model_latent"}, "w", zs, Scales)) :
             \E xs \in Optional(SampleSitesAfter("model", {"model_observed"}, "x",
                                                 zs \o ws, Scales)) :
               \E ys \in Optional(SampleSitesAfter("model", {"model_observed"}, "y",
                                                   zs \o ws \o xs, {1})) :
                 /\ guide_tr = g
                 /\ model_tr = zs \o ws \o xs \o ys
    /\ guide_terms = None /\ model_terms = None
    /\ contracted_factors = <<>> /\ uncontracted_factors = <<>>
    /\ costs = <<>> /\ elbo = <<>>
    /\ raised = "none" /\ get_trace_calls = 0
    /\ ExtractIdle

-----------------------------------------------------------------------------
(* differentiable_loss *)

\* lines 63-64
ExtractTerms ==
    /\ pc = "start"
    /\ LET g == terms_from_trace(guide_tr)
           m == terms_from_trace(model_tr)
       IN /\ guide_terms' = g.terms /\ guide_tr' = g.nodes
          /\ model_terms' = m.terms /\ model_tr' = m.nodes
    /\ pc' = "extracted"
    /\ raised' = "none"
    /\ UNCHANGED <<contracted_factors, uncontracted_factors, costs, elbo,
                   get_trace_calls, extract_vars>>

\* lines 69-74
Partition ==
    /\ pc = "extracted"
    /\ contracted_factors' = contracted(model_terms)
    /\ uncontracted_factors' = uncontracted(model_terms)
    /\ pc' = "partitioned"
    /\ UNCHANGED <<guide_tr, model_tr, guide_terms, model_terms, costs, elbo, raised,
                   get_trace_calls, extract_vars>>

\* lines 75-78
Eliminate ==
    /\ pc = "partitioned"
    /\ LET r == eliminate_model(model_terms, contracted_factors)
       IN IF r.raised # "none"
          THEN /\ raised' = r.raised /\ pc' = "raised"
               /\ UNCHANGED model_terms
          ELSE /\ model_terms' = [model_terms EXCEPT !.log_factors = r.results]
               /\ pc' = "eliminated"
               /\ UNCHANGED raised
    /\ UNCHANGED <<guide_tr, model_tr, guide_terms, contracted_factors,
                   uncontracted_factors, costs, elbo, get_trace_calls, extract_vars>>

\* lines 82-98
IntegrateCosts ==
    /\ pc = "eliminated"
    /\ LET cs == build_costs(model_terms, uncontracted_factors, guide_terms)
           pv == all_plate_vars(guide_terms, model_terms)
           es == [i \in 1..Len(cs) |-> elbo_term(cs[i], guide_terms, pv)]
       IN /\ costs' = cs
          /\ IF \E i \in 1..Len(es) : es[i].raised # "none"
             THEN /\ raised' = "ValueError: intractable!" /\ pc' = "raised"
                  /\ UNCHANGED elbo
             ELSE /\ elbo' = es /\ pc' = "done"
                  /\ UNCHANGED raised
    /\ UNCHANGED <<guide_tr, model_tr, guide_terms, model_terms, contracted_factors,
                   uncontracted_factors, get_trace_calls, extract_vars>>

\* lines 51-52, called on an object that is not inside differentiable_loss
GetTrace ==
    /\ pc \in {"done", "raised"}
    /\ get_trace_calls < MaxGetTraceCalls
    /\ \E args \in {<<>>, <<"data">>} : raised' = get_trace(args)
    /\ get_trace_calls' = get_trace_calls + 1
    /\ UNCHANGED <<loss_vars, extract_vars>>

Next == ExtractTerms \/ Partition \/ Eliminate \/ IntegrateCosts \/ GetTrace

Spec == Init /\ [][Next]_vars

-----------------------------------------------------------------------------
(* Properties of differentiable_loss *)

Done == pc = "done"

\* the atoms of a funsor, and the coefficient of one of them
Atoms(f) == {t.atom : t \in f.terms}
CoefOf(f, a) == (CHOOSE t \in f.terms : t.atom = a).coef

\* the model's scored sample sites and the atom each one's log_prob is
ModelScored == {i \in 1..Len(model_tr) : ScoredIn(model_tr, i)}
ModelAtom(i) == <<"model", model_tr[i].name, "log_prob">>
GuideScored == {i \in 1..Len(guide_tr) : ScoredIn(guide_tr, i)}
GuideAtom(i) == <<"guide", guide_tr[i].name, "log_prob">>

\* the costs a given atom occurs in
CostsWith(a) == {j \in 1..Len(costs) : a \in Atoms(costs[j])}

\* C3: the cost list is the shared scale times each factor the model elimination
\* returned, then the uncontracted model factors unchanged, then the negated
\* guide log_factors, in this order; model factors enter with positive and guide
\* factors with negative sign.
C3_CostList ==
    Done =>
      LET E == model_terms.log_factors
          U == uncontracted_factors
          G == guide_terms.log_factors
      IN /\ Len(costs) = Len(E) + Len(U) + Len(G)
         /\ \A i \in 1..Len(E) : costs[i] = Mul(E[i], model_terms.scale)
         /\ \A i \in 1..Len(U) : costs[Len(E) + i] = U[i]
         /\ \A i \in 1..Len(G) :
              /\ costs[Len(E) + Len(U) + i].inputs = G[i].inputs
              /\ Atoms(costs[Len(E) + Len(U) + i]) = Atoms(G[i])
              /\ \A a \in Atoms(G[i]) :
                   CoefOf(costs[Len(E) + Len(U) + i], a) = 0 - CoefOf(G[i], a)
         /\ \A j \in 1..Len(costs) : \A t \in costs[j].terms :
              IF j <= Len(E) + Len(U) THEN t.coef > 0 ELSE t.coef < 0

\* C3 witness: a finished call with eliminated, uncontracted and guide factors and
\* a shared scale above 1.
C3_Witness ==
    /\ Done
    /\ Len(model_terms.log_factors) >= 1 /\ Len(uncontracted_factors) >= 1
    /\ Len(guide_terms.log_factors) >= 1 /\ model_terms.scale.val > 1

\* C4: when every factor's free variables are plate or measure variables of the
\* two term-sets, every term added to elbo has no free variable left: the cost is
\* integrated over the guide measure_vars among its inputs, against the guide
\* marginal that eliminated the plate and guide measure variables not among its
\* inputs, and summed over the plates (of either trace) among its inputs.
FactorsOverKnownVariables ==
    LET known == guide_terms.plate_vars \cup model_terms.plate_vars
                 \cup guide_terms.measure_vars \cup model_terms.measure_vars
        fs == Range(guide_terms.log_factors) \cup Range(guide_terms.log_measures)
              \cup Range(contracted_factors) \cup Range(uncontracted_factors)
              \cup Range(model_terms.log_measures)
              \cup {guide_terms.scale, model_terms.scale}
    IN \A f \in fs : f.inputs \subseteq known

C4_ElboScalar ==
    (Done /\ FactorsOverKnownVariables) =>
      LET pv == guide_terms.plate_vars \cup model_terms.plate_vars
          gmv == guide_terms.measure_vars
      IN /\ Len(elbo) = Len(costs)
         /\ \A i \in 1..Len(elbo) :
              /\ elbo[i].cost = costs[i]
              /\ elbo[i].integrated = {v \in costs[i].inputs : v \in gmv}
              /\ elbo[i].eliminated = {v \in pv \cup gmv : v \notin costs[i].inputs}
              /\ elbo[i].reduced = {v \in costs[i].inputs : v \in pv}
              /\ elbo[i].inputs = {}

\* C4 witness: the traces have different plates, and one cost is both integrated
\* over a guide variable and summed over a plate the guide does not have.
C4_Witness ==
    /\ Done /\ FactorsOverKnownVariables
    /\ guide_terms.plate_vars # model_terms.plate_vars
    /\ \E i \in 1..Len(elbo) :
         /\ elbo[i].integrated # {}
         /\ (elbo[i].reduced \ guide_terms.plate_vars) # {}
    /\ \E i \in 1..Len(elbo) : elbo[i].eliminated # {}

\* C5: when no site of either trace has a log_measure, every model log_factor is
\* uncontracted, the elimination gets and returns no factor, nothing is
\* integrated over, and the costs summed over the plates are each model site's
\* log_prob times its scale and minus each guide site's log_prob times its scale.
NoLogMeasure ==
    /\ \A i \in 1..Len(guide_tr) : guide_tr[i].log_measure = None
    /\ \A i \in 1..Len(model_tr) : model_tr[i].log_measure = None

C5_NoMeasurePlainElbo ==
    (Done /\ NoLogMeasure) =>
      /\ guide_terms.measure_vars = {} /\ model_terms.measure_vars = {}
      /\ contracted_factors = <<>>
      /\ model_terms.log_factors = <<>>
      /\ Len(uncontracted_factors) = Cardinality(ModelScored)
      /\ \A j \in 1..Len(elbo) :
           /\ elbo[j].integrated = {}
           /\ elbo[j].reduced = elbo[j].cost.inputs
           /\ elbo[j].inputs = {}
      /\ \A i \in ModelScored :
           /\ Cardinality(CostsWith(ModelAtom(i))) = 1
           /\ \A j \in CostsWith(ModelAtom(i)) :
                CoefOf(costs[j], ModelAtom(i)) = model_tr[i].scale.val
      /\ \A i \in GuideScored :
           /\ Cardinality(CostsWith(GuideAtom(i))) = 1
           /\ \A j \in CostsWith(GuideAtom(i)) :
                CoefOf(costs[j], GuideAtom(i)) = 0 - guide_tr[i].scale.val

\* the part of C5 that does not rest on the scaling of the log_factors
C5_NoElimination ==
    (Done /\ NoLogMeasure) =>
      /\ guide_terms.measure_vars = {} /\ model_terms.measure_vars = {}
      /\ contracted_factors = <<>>
      /\ model_terms.log_factors = <<>>
      /\ Len(uncontracted_factors) = Cardinality(ModelScored)
      /\ \A j \in 1..Len(elbo) :
           /\ elbo[j].integrated = {}
           /\ elbo[j].reduced = elbo[j].cost.inputs
           /\ elbo[j].inputs = {}

\* C6: at the partition every model log_factor is in exactly one of contracted and
\* uncontracted, contracted exactly when its inputs meet the model measure_vars,
\* and each part keeps the order of the extractor's log_factors.
C6_Partition ==
    pc = "partitioned" =>
      LET L == model_terms.log_factors
          meets(k) == \E v \in L[k].inputs : v \in model_terms.measure_vars
          rank(k) == Cardinality({j \in 1..k : meets(j) = meets(k)})
      IN /\ Len(contracted_factors) + Len(uncontracted_factors) = Len(L)
         /\ \A k \in 1..Len(L) :
              IF meets(k)
              THEN rank(k) <= Len(contracted_factors)
                   /\ contracted_factors[rank(k)] = L[k]
              ELSE rank(k) <= Len(uncontracted_factors)
                   /\ uncontracted_factors[rank(k)] = L[k]

\* C6 witness: a partition with a contracted factor between two uncontracted ones
\* or after one, both parts non-empty.
C6_Witness ==
    /\ pc = "partitioned"
    /\ contracted_factors # <<>>
    /\ Len(uncontracted_factors) >= 2
    /\ \E k \in 2..Len(model_terms.log_factors) :
         /\ model_terms.log_factors[k] \in Range(contracted_factors)
         /\ model_terms.log_factors[k - 1] \in Range(uncontracted_factors)

\* C9: every call of _get_trace ends in its ValueError and leaves the traces and
\* everything else of the computation alone, whatever the arguments; and no step
\* of differentiable_loss calls _get_trace.
C9_GetTraceRaises ==
    [][ /\ get_trace_calls' # get_trace_calls =>
             /\ raised' = "ValueError: shouldn't be here"
             /\ UNCHANGED loss_vars
        /\ pc' # pc => get_trace_calls' = get_trace_calls ]_vars

\* C9 witness: _get_trace was called after a finished differentiable_loss.
C9_Witness == Done /\ get_trace_calls >= 1 /\ raised # "none"

\* C10: the log_prob of every scored model site is in exactly one cost; that of a
\* site that took the default branch carries the site's own scale, and that of a
\* site that took the shared-scale branch was contracted and carries the shared
\* scale.
C10_ScaledOnce ==
    Done =>
      \A i \in ModelScored :
        /\ Cardinality(CostsWith(ModelAtom(i))) = 1
        /\ \A j \in CostsWith(ModelAtom(i)) :
             IF DependsOnOtherVariableIn(model_tr, i)
             THEN /\ CoefOf(costs[j], ModelAtom(i)) = model_terms.scale.val
                  /\ \E f \in Range(contracted_factors) : ModelAtom(i) \in Atoms(f)
             ELSE CoefOf(costs[j], ModelAtom(i)) = model_tr[i].scale.val

====
